---- MODULE Spec2Model ----
(***************************************************************************)
(* Model of the "Your AI Council" MCP server                               *)
(* (your-ai-council_server_python/main.py): the POST /mcp endpoint         *)
(* handle_mcp_request, its pydantic input model and the widget template    *)
(* loader.                                                                 *)
(*                                                                         *)
(* JSON / Python values are tagged records: the tag field t keeps the      *)
(* Python type, so that the integer 1 and the string "1" are different     *)
(* values.  A dict is a record whose missing keys hold Absent.  Strings    *)
(* that are only compared or formatted are TLA+ strings (field v); the     *)
(* question, whose length and occurrence in the text matter, is a          *)
(* sequence of characters (field chars).                                   *)
(***************************************************************************)
EXTENDS Integers, Sequences, FiniteSets, TLC

VARIABLES request, response, templateExists, log

vars == <<request, response, templateExists, log>>

-----------------------------------------------------------------------------
(* Bounds *)

MaxLen == 2       \* longest question, in characters
MaxLog == 3       \* longest recorded sequence of requests

-----------------------------------------------------------------------------
(* Values *)

Absent == [t |-> "absent"]                  \* key not in the dict
None == [t |-> "null"]                      \* Python None / JSON null
JInt(s) == [t |-> "int", v |-> s]            \* JSON integer, written in digits
JStr(s) == [t |-> "str", v |-> s]            \* JSON string
Text(cs) == [t |-> "str", chars |-> cs]     \* JSON string, as characters
List == [t |-> "list"]                      \* a JSON array (not a mapping)
Raise(e) == [t |-> "raise", exc |-> e]      \* an exception leaving a call

NoRequest == [t |-> "norequest"]

Alphabet == {"a", "b"}

RECURSIVE SeqsUpTo(_)
SeqsUpTo(n) ==
  IF n = 0 THEN {<<>>}
  ELSE LET shorter == SeqsUpTo(n - 1)
       IN  shorter \cup {Append(s, c) : s \in {q \in shorter : Len(q) = n - 1}, c \in Alphabet}

\* dict.get(key, default) on a dict whose entry for key is entry
DictGet(entry, default) == IF entry = Absent THEN default ELSE entry

\* str(value), as an f-string formats it
PyStr(value) ==
  IF value.t = "null" THEN "None"
  ELSE IF value.t = "list" THEN "[]"
  ELSE value.v

-----------------------------------------------------------------------------
(* Program constants and pure helpers *)

KnownUri == "app://your-ai-council.html"
DefaultProtocolVersion == "2025-03-26"
WidgetHtml == JStr("<html>your-ai-council</html>")

\* the text before the question in the tool result
TextPrefix == <<"Your", " ", "AI", " ", "Council", " ", "considered", " ",
                "the", " ", "question", ":", " ">>

\* the existence test is inverted
_load_widget_html_inverted(exists) ==
  IF exists THEN Raise("FileNotFoundError") ELSE WidgetHtml

_load_widget_html(exists) ==
  IF ~exists THEN Raise("FileNotFoundError") ELSE WidgetHtml

_get_tool_metadata ==
  [outputTemplate |-> KnownUri,
   invoking |-> "Consulting the AI Council",
   invoked |-> "Council wisdom received",
   widgetAccessible |-> TRUE,
   resultCanProduceWidget |-> TRUE,
   toolEnabled |-> TRUE,
   annotations |-> [destructiveHint |-> FALSE, openWorldHint |-> FALSE,
                    readOnlyHint |-> TRUE]]

\* the length test is off by one: a one-character question is rejected
CouncilQuestionInputOffByOne(tool_args) ==
  IF tool_args.t # "map" THEN Raise("TypeError")
  ELSE IF tool_args.question = Absent THEN Raise("ValidationError")
  ELSE IF tool_args.question.t # "str" THEN Raise("ValidationError")
  ELSE IF Len(tool_args.question.chars) <= 1 THEN Raise("ValidationError")
  ELSE [t |-> "model", question |-> tool_args.question]

\* CouncilQuestionInput(**tool_args): the validated model or the exception
CouncilQuestionInput(tool_args) ==
  IF tool_args.t # "map" THEN Raise("TypeError")
  ELSE IF tool_args.question = Absent THEN Raise("ValidationError")
  ELSE IF tool_args.question.t # "str" THEN Raise("ValidationError")
  ELSE IF Len(tool_args.question.chars) < 1 THEN Raise("ValidationError")
  ELSE [t |-> "model", question |-> tool_args.question]

CouncilMember(name, role, opinion) ==
  [name |-> name, role |-> role, opinion |-> opinion]

Members ==
  << CouncilMember("Dr. Sarah Chen", "Strategic Advisor",
       "This is a great opportunity! Consider the long-term implications and stakeholder impact carefully."),
     CouncilMember("Marcus Rodriguez", "Technical Expert",
       "From a technical standpoint, this is feasible. Focus on implementation challenges and scalability."),
     CouncilMember("Alex Thompson", "User Experience Specialist",
       "Users will love this approach! Make sure it solves real problems and provides clear value.") >>

\* CouncilResponse(question=..., members=...).model_dump()
CouncilResponse(question, members) ==
  [question |-> question, members |-> members]

-----------------------------------------------------------------------------
(* Envelopes *)

NoReply == [t |-> "none"]                   \* the handler returned None

\* an error envelope also carries "result": None
EnvelopeNullResult(id, result, error) ==
  [t |-> "envelope", jsonrpc |-> "2.0", id |-> id,
   result |-> IF result = Absent THEN None ELSE result, error |-> error]

Envelope(id, result, error) ==
  [t |-> "envelope", jsonrpc |-> "2.0", id |-> id, result |-> result, error |-> error]

Error(code, message) == [code |-> code, message |-> message]

\* the except branch answers without the request's id
InternalErrorNullId(req) ==
  Envelope(None, Absent, Error(-32603, "Internal error"))

\* the except branch: lines 254-263
InternalError(req) ==
  Envelope(DictGet(req.id, None), Absent, Error(-32603, "Internal error"))

\* method == "initialize": lines 94-121
HandleInitialize(req, params) ==
  IF params.t # "map" THEN Raise("AttributeError")
  ELSE Envelope(IF req.id # Absent THEN req.id ELSE Absent,
                [protocolVersion |-> DictGet(params.protocolVersion, JStr(DefaultProtocolVersion)),
                 capabilities |-> [tools |-> [call |-> TRUE],
                                   resources |-> [list |-> TRUE, read |-> TRUE]],
                 serverInfo |-> [name |-> "Your AI Council", version |-> "0.1.0"]],
                Absent)

\* the notification is answered with an empty result
HandleNotificationReplies(req) ==
  Envelope(DictGet(req.id, None), [t |-> "empty"], Absent)

\* method == "notifications/initialized": lines 123-126
HandleNotification(req) == NoReply

\* method == "resources/read": lines 128-155
HandleResourcesRead(req, params, exists) ==
  IF params.t # "map" THEN Raise("AttributeError")
  ELSE LET uri == DictGet(params.uri, None)
       IN  IF uri = JStr(KnownUri)
           THEN LET html_content == _load_widget_html(exists)
                IN  IF html_content.t = "raise" THEN html_content
                    ELSE Envelope(DictGet(req.id, None),
                                  [contents |-> << [uri |-> uri, mimeType |-> "text/html",
                                                    text |-> html_content] >>],
                                  Absent)
           ELSE Envelope(DictGet(req.id, None), Absent,
                         Error(-32602, "Resource '" \o PyStr(uri) \o "' not found"))

\* method == "tools/list": lines 157-178
HandleToolsList(req) ==
  Envelope(DictGet(req.id, None),
           [tools |-> << [name |-> "ask_council",
                          title |-> "Ask AI Council",
                          inputSchema |-> [required |-> <<"question">>, minLength |-> 1],
                          meta |-> _get_tool_metadata,
                          openai |-> [result |-> [structured |-> TRUE]]] >>],
           Absent)

\* method == "tools/call": lines 180-240
HandleToolsCall(req, params) ==
  IF params.t # "map" THEN Raise("AttributeError")
  ELSE LET tool_name == DictGet(params.name, None)
           tool_args == DictGet(params.arguments, [t |-> "map", question |-> Absent])
       IN  IF tool_name = JStr("ask_council")
           THEN LET input_data == CouncilQuestionInput(tool_args)
                IN  IF input_data.t = "raise" THEN input_data
                    ELSE Envelope(DictGet(req.id, None),
                                  [content |-> << [type |-> "text",
                                                   text |-> Text(TextPrefix \o input_data.question.chars)] >>,
                                   structuredContent |-> CouncilResponse(input_data.question, Members),
                                   meta |-> _get_tool_metadata],
                                  Absent)
           ELSE Envelope(DictGet(req.id, None), Absent,
                         Error(-32601, "Method '" \o PyStr(tool_name) \o "' not found"))

\* a method that is not a string is answered with invalid-request -32600
HandleUnknownInvalidRequest(req, method) ==
  Envelope(DictGet(req.id, None), Absent,
           Error(IF method.t # "str" THEN -32600 ELSE -32601,
                 "Method '" \o PyStr(method) \o "' not found"))

\* the unknown-method answer drops the request's id
HandleUnknownNullId(req, method) ==
  Envelope(None, Absent,
           Error(-32601, "Method '" \o PyStr(method) \o "' not found"))

\* the final else: lines 242-252
HandleUnknown(req, method) ==
  Envelope(DictGet(req.id, None), Absent,
           Error(-32601, "Method '" \o PyStr(method) \o "' not found"))

\* the body of the try block: lines 91-252
Dispatch(req, exists) ==
  LET method == DictGet(req.method, None)
      params == DictGet(req.params, [t |-> "map", protocolVersion |-> Absent, uri |-> Absent,
                                     name |-> Absent, arguments |-> Absent])
  IN  IF method = JStr("initialize") THEN HandleInitialize(req, params)
      ELSE IF method = JStr("notifications/initialized") THEN HandleNotification(req)
      ELSE IF method = JStr("resources/read") THEN HandleResourcesRead(req, params, exists)
      ELSE IF method = JStr("tools/list") THEN HandleToolsList(req)
      ELSE IF method = JStr("tools/call") THEN HandleToolsCall(req, params)
      ELSE HandleUnknown(req, method)

\* try: ... except Exception: lines 90-263
handle_mcp_request(req, exists) ==
  LET outcome == Dispatch(req, exists)
  IN  IF outcome.t = "raise" THEN InternalError(req) ELSE outcome

-----------------------------------------------------------------------------------------------------------------------------------------------------
(* Inputs *)

Methods ==
  {Absent, JInt("5"),
   JStr("initialize"), JStr("notifications/initialized"), JStr("resources/read"),
   JStr("tools/list"), JStr("tools/call"), JStr("None")}

Ids == {Absent, None, JInt("1"), JStr("1")}

Questions == {Absent, JInt("7")} \cup {Text(cs) : cs \in SeqsUpTo(MaxLen)}

Arguments == {Absent, None, List} \cup {[t |-> "map", question |-> q] : q \in Questions}

ParamsMap(pv, uri, name, arguments) ==
  [t |-> "map", protocolVersion |-> pv, uri |-> uri, name |-> name, arguments |-> arguments]

Params ==
  {Absent, None, List}
  \cup {ParamsMap(pv, uri, Absent, Absent) :
          pv \in {Absent, JStr("2024-11-05")},
          uri \in {Absent, JStr(KnownUri), JStr("app://other.html")}}
  \cup {ParamsMap(Absent, Absent, JStr("ask_council"), arguments) : arguments \in Arguments}
  \cup {ParamsMap(Absent, Absent, JStr("other_tool"), arguments) :
          arguments \in {Absent, [t |-> "map", question |-> Text(<<"a">>)]}}

Requests == [method : Methods, id : Ids, params : Params]

\* the requests replayed in recorded sequences
SeqRequests ==
  { [method |-> JStr("tools/list"), id |-> JInt("1"), params |-> Absent],
    [method |-> JStr("tools/call"), id |-> JInt("1"),
     params |-> ParamsMap(Absent, Absent, JStr("ask_council"),
                          [t |-> "map", question |-> Text(<<"a">>)])],
    [method |-> JStr("tools/call"), id |-> JInt("1"),
     params |-> ParamsMap(Absent, Absent, JStr("ask_council"),
                          [t |-> "map", question |-> Absent])],
    [method |-> JStr("initialize"), id |-> JInt("1"), params |-> List],
    [method |-> JStr("resources/read"), id |-> JInt("1"),
     params |-> ParamsMap(Absent, JStr(KnownUri), Absent, Absent)],
    [method |-> JStr("notifications/initialized"), id |-> Absent, params |-> Absent],
    [method |-> JStr("notifications/initialized"), id |-> JInt("1"), params |-> List] }

-----------------------------------------------------------------------------
(* Operations *)

Init ==
  /\ request = NoRequest
  /\ response = NoReply
  /\ templateExists \in BOOLEAN
  /\ log = <<>>

\* a later request is answered with the failure of the one before it
ServeSticky(req) ==
  /\ request' = req
  /\ response' = IF response.t = "envelope" /\ response.error # Absent
                    /\ response.error.code = -32603
                 THEN InternalError(req)
                 ELSE handle_mcp_request(req, templateExists)
  /\ UNCHANGED templateExists

\* one POST /mcp: the handler runs to completion and returns its response
Serve(req) ==
  /\ request' = req
  /\ response' = handle_mcp_request(req, templateExists)
  /\ UNCHANGED templateExists

Handle ==
  \E req \in Requests : Serve(req) /\ UNCHANGED log

\* one POST /mcp, recorded: log is the history of the exchanges so far
HandleSeq ==
  /\ Len(log) < MaxLog
  /\ \E req \in SeqRequests :
       /\ Serve(req)
       /\ log' = Append(log, [request |-> req, exists |-> templateExists,
                              response |-> response'])

\* the environment creates or removes assets/your-ai-council.html
TemplateChange ==
  /\ templateExists' = ~templateExists
  /\ UNCHANGED <<request, response, log>>

Next == Handle \/ TemplateChange

Spec == Init /\ [][Next]_vars

NextSeq == HandleSeq \/ TemplateChange

SpecSeq == Init /\ [][NextSeq]_vars

-----------------------------------------------------------------------------
(* Vocabulary of the properties *)

Handled == request # NoRequest

IsEnvelope(r) == r.t = "envelope"

IsError(r, code) ==
  IsEnvelope(r) /\ r.error # Absent /\ r.error.code = code /\ r.result = Absent

IsResult(r) == IsEnvelope(r) /\ r.result # Absent /\ r.error = Absent

KnownMethods ==
  {JStr("initialize"), JStr("notifications/initialized"), JStr("resources/read"),
   JStr("tools/list"), JStr("tools/call")}

ReplyingMethods == KnownMethods \ {JStr("notifications/initialized")}

\* params is a mapping; a request without params counts as one with {}
ParamsOf(req) ==
  DictGet(req.params, ParamsMap(Absent, Absent, Absent, Absent))

MappingParams(req) == ParamsOf(req).t = "map"

\* the method field is missing or is not a string
MalformedMethod(req) == req.method = Absent \/ req.method.t # "str"

\* q occurs in t as a contiguous run of characters
Contains(t, q) ==
  \E i \in 1..(Len(t) - Len(q) + 1) : SubSeq(t, i, i + Len(q) - 1) = q

MemberNames(members) == [i \in 1..Len(members) |-> members[i].name]

-----------------------------------------------------------------------------
(* Properties *)

\* C1: a request that carries an id and names a replying known method
\* (initialize, tools/list, tools/call, resources/read) gets a response
\* whose id is the request's id, same value and same type, whether the
\* response is a result or an error (the -32603 path included).
C1_IdEchoed ==
  (Handled /\ request.id # Absent /\ request.method \in ReplyingMethods)
    => (IsEnvelope(response) /\ response.id = request.id)

C1_Witness ==
  /\ Handled
  /\ request.id = JStr("1")
  /\ request.method = JStr("tools/call")
  /\ IsError(response, -32603)
  /\ response.id = JStr("1")

\* C2 (as claimed): tools/call of ask_council with arguments {} or with an
\* empty question fails with the invalid-params code -32602, not -32603.
C2_ValidationErrorCode ==
  (/\ Handled
   /\ request.method = JStr("tools/call")
   /\ MappingParams(request)
   /\ ParamsOf(request).name = JStr("ask_council")
   /\ ParamsOf(request).arguments \in {[t |-> "map", question |-> Absent],
                                       [t |-> "map", question |-> Text(<<>>)]})
    => IsError(response, -32602)

\* C3 (as claimed): the response carries the request's id when the request
\* has one, and has no id key at all when the request has none.
C3_IdOmittedWhenAbsent ==
  (Handled /\ IsEnvelope(response))
    => response.id = request.id

\* C4 (as claimed): a request whose method is missing or not a string is
\* rejected as malformed, which is not the method-not-found error -32601.
C4_MalformedDistinct ==
  (Handled /\ MalformedMethod(request)) => ~IsError(response, -32601)

\* C4 (amended): a request whose method is missing or not a string gets the
\* method-not-found error -32601, the very response given to the well-formed
\* request that names the unknown method str(method) ("None" when missing).
\* Stated of the step that handles the request, since the response is
\* read against the template file as it was then.
C4_MalformedIsNotFound ==
  [][(templateExists' = templateExists /\ request' # NoRequest /\ MalformedMethod(request'))
       => /\ IsError(response', -32601)
          /\ response' = handle_mcp_request(
                           [request' EXCEPT !.method = JStr(PyStr(DictGet(request'.method, None)))],
                           templateExists)]_vars

C4_Witness ==
  /\ Handled
  /\ request.method = Absent
  /\ request.id = JInt("1")
  /\ IsError(response, -32601)
  /\ response.error.message = "Method 'None' not found"

\* C5: a request whose method is none of the five known ones, and a
\* tools/call (params a mapping) whose name is not ask_council, both get an
\* error -32601 without a result, and the request's id is echoed.
C5_NotFound ==
  (/\ Handled
   /\ \/ request.method \notin KnownMethods
      \/ /\ request.method = JStr("tools/call")
         /\ MappingParams(request)
         /\ ParamsOf(request).name # JStr("ask_council"))
    => /\ IsError(response, -32601)
       /\ request.id # Absent => response.id = request.id

C5_Witness ==
  /\ Handled
  /\ request.method = JStr("tools/call")
  /\ MappingParams(request)
  /\ ParamsOf(request).name = JStr("other_tool")
  /\ request.id = JInt("1")
  /\ IsError(response, -32601)
  /\ response.id = JInt("1")

\* C6: tools/call of ask_council with a non-empty string question Q returns
\* a result whose structuredContent has question Q and exactly the three
\* members Dr. Sarah Chen, Marcus Rodriguez, Alex Thompson in that order,
\* and whose text contains Q; the members are the same for every Q.
C6_CouncilResult ==
  (/\ Handled
   /\ request.method = JStr("tools/call")
   /\ MappingParams(request)
   /\ ParamsOf(request).name = JStr("ask_council")
   /\ ParamsOf(request).arguments \in {[t |-> "map", question |-> Text(cs)] :
                                          cs \in SeqsUpTo(MaxLen) \ {<<>>}})
    => /\ IsResult(response)
       /\ response.result.structuredContent.question = ParamsOf(request).arguments.question
       /\ Len(response.result.structuredContent.members) = 3
       /\ MemberNames(response.result.structuredContent.members)
            = <<"Dr. Sarah Chen", "Marcus Rodriguez", "Alex Thompson">>
       /\ response.result.structuredContent.members = Members
       /\ Len(response.result.content) = 1
       /\ Contains(response.result.content[1].text.chars,
                   ParamsOf(request).arguments.question.chars)

C6_Witness ==
  /\ Handled
  /\ request.method = JStr("tools/call")
  /\ MappingParams(request)
  /\ ParamsOf(request).name = JStr("ask_council")
  /\ ParamsOf(request).arguments = [t |-> "map", question |-> Text(<<"b", "a">>)]
  /\ IsResult(response)
  /\ response.result.structuredContent.question = Text(<<"b", "a">>)

\* what C7 says of a resources/read request req answered by r
ResourceRead(req, r) ==
  IF ParamsOf(req).uri = JStr(KnownUri)
  THEN /\ IsResult(r)
       /\ Len(r.result.contents) = 1
       /\ r.result.contents[1].uri = ParamsOf(req).uri
       /\ r.result.contents[1].mimeType = "text/html"
  ELSE IsError(r, -32602)

\* C7 (as claimed): resources/read with the known uri returns a result
\* with one content entry of that uri and mimeType text/html; with any
\* other uri, or none, it returns the error -32602 and no result.
C7_ResourceRead ==
  (Handled /\ request.method = JStr("resources/read") /\ MappingParams(request))
    => ResourceRead(request, response)

\* C7 (amended): the same, provided the widget template file exists when
\* the request is handled; when it does not, the known uri gets the
\* internal error -32603 and no result.
C7_ResourceReadTemplate ==
  [][(/\ templateExists' = templateExists
      /\ request' # NoRequest
      /\ request'.method = JStr("resources/read")
      /\ MappingParams(request'))
       => IF templateExists \/ ParamsOf(request').uri # JStr(KnownUri)
          THEN ResourceRead(request', response')
          ELSE IsError(response', -32603)]_vars

C7_Witness ==
  /\ Handled
  /\ request.method = JStr("resources/read")
  /\ MappingParams(request)
  /\ ParamsOf(request).uri = JStr(KnownUri)
  /\ templateExists
  /\ IsResult(response)
  /\ response.result.contents[1].mimeType = "text/html"

Notification(req) == req.method = JStr("notifications/initialized")

\* C8: notifications/initialized is answered with nothing at all, neither
\* result nor error, with or without an id; and a request gets the same
\* response before and after any notifications/initialized.
C8_NotificationSilent ==
  /\ \A i \in 1..Len(log) : Notification(log[i].request) => log[i].response = NoReply
  /\ \A i, j, k \in 1..Len(log) :
       (/\ i < j /\ j < k
        /\ Notification(log[j].request)
        /\ log[i].request = log[k].request
        /\ log[i].exists = log[k].exists)
         => log[i].response = log[k].response

C8_Witness ==
  /\ Len(log) = 3
  /\ log[1].request.method = JStr("tools/call")
  /\ IsResult(log[1].response)
  /\ Notification(log[2].request)
  /\ log[2].request.id # Absent
  /\ log[2].response = NoReply
  /\ log[3] = log[1]

\* C9: every response envelope has exactly one of result and error; an
\* error has an integer code among -32601, -32602, -32603 and a message.
C9_ResultXorError ==
  (Handled /\ IsEnvelope(response))
    => /\ (response.result = Absent) # (response.error = Absent)
       /\ response.error # Absent
            => /\ response.error.code \in {-32601, -32602, -32603}
               /\ response.error.message \in STRING

C9_Witness ==
  /\ Handled
  /\ request.method = JStr("initialize")
  /\ request.params = None
  /\ IsError(response, -32603)
  /\ response.error.message = "Internal error"

\* the request fails while it is handled: non-mapping params, a question
\* that does not validate, or a missing template
Failing(req, exists) ==
  \/ /\ req.method \in {JStr("initialize"), JStr("resources/read"), JStr("tools/call")}
     /\ ~MappingParams(req)
  \/ /\ req.method = JStr("tools/call")
     /\ MappingParams(req)
     /\ ParamsOf(req).name = JStr("ask_council")
     /\ ParamsOf(req).arguments = [t |-> "map", question |-> Absent]
  \/ /\ req.method = JStr("resources/read")
     /\ MappingParams(req)
     /\ ParamsOf(req).uri = JStr(KnownUri)
     /\ ~exists

====
